---- MODULE Spec2Model ----
(***************************************************************************)
(* Lease Lightning backend: the applicant Store (backend/services.py), the *)
(* HTTP routes over it (backend/api.py) and the background Decision Task.  *)
(*                                                                         *)
(* The persisted state is one JSON file holding a list of applicant        *)
(* records.  Every Store operation runs `with _lock:` around a whole-file  *)
(* read and (for mutations) a whole-file rewrite.  FastAPI runs the sync   *)
(* route functions and the background task on thread-pool threads, so      *)
(* requests and Decision Tasks interleave; each Store operation is         *)
(* modelled in two steps, Enter (acquire the lock and _read) and a body   *)
(* step (modify, _write, leave the `with` block, return).                  *)
(***************************************************************************)
EXTENDS Integers, Sequences, FiniteSets, TLC

\* ---------------------------------------------------------------- bounds
MaxOps == 3         \* HTTP requests issued in one run
MaxTasks == 1       \* run-decision requests among them (one background thread each)

\* ------------------------------------------------------ program constants
BaseId == 1000      \* default of max(...) in create_applicant
SeedLen == 5        \* number of records in DEFAULTS

None == "None"      \* Python None for an Optional[str] field
NoOne == 0          \* the lock is free
Absent == <<[absent |-> TRUE]>>   \* DATA_FILE does not exist

Workers == {1, 2}                      \* thread-pool threads serving requests
Tasks == {10 + i : i \in 1..MaxTasks}   \* one background thread per accepted run-decision
Procs == Workers \cup Tasks

Mk(i, n, u, d, s, r, im, er) ==
    [id |-> i, name |-> n, unit |-> u, date |-> d, status |-> s, risk |-> r,
     income_match |-> im, error_rate |-> er]

DEFAULTS ==
    << Mk(1001, "Anya Sharma", "402B", "2025-11-19", "Decision Ready", "Low", "110%", "0%"),
       Mk(1002, "Ben Carter", "105A", "2025-11-18", "Verification Agent", "Pending", "Pending", "N/A"),
       Mk(1003, "Chloe Davis", "512C", "2025-11-17", "Decision Ready", "Medium", "85%", "0%"),
       Mk(1004, "David Lee", "201B", "2025-11-15", "Document Agent", "Low", "125%", "0%"),
       Mk(1005, "Eva Rodriguez", "308D", "2025-11-14", "Denied", "High", "60%", "N/A") >>

\* ------------------------------------------------------- request inputs
Names == {"Fay Moss"}
Units == {""}
Dates == {"2025-11-20"}                 \* datetime.now() at the time of the create
PatchStatus == {None, "Approved/Leased"}
PatchRisk == {None, "High"}

\* An earlier run of the server leaves DATA_FILE behind; a fresh checkout has none.
InitFiles == {Absent, <<>>}

VARIABLES
    file,       \* contents of DATA_FILE: Absent or the list of records
    lock,       \* holder of _lock, or NoOne
    pc,         \* per thread: "idle", "lock" (at `with _lock`), "body" (inside it), "sleep"
    op,         \* per thread: the Store call in progress (and its route)
    data,       \* per thread: the list _read() returned
    last,       \* the most recent HTTP response
    applicant,  \* per task: applicant_id of the closure
    used,       \* number of requests issued so far
    serial,     \* history: the collection obtained by applying the bodies one after another
    assigned,   \* history: ids returned by create_applicant so far
    reborn,     \* history, per task: create assigned the task's id after run-decision was accepted
    outcome     \* history, per task: "none", "queued", "exited", "lost", "written"

vars == <<file, lock, pc, op, data, last, applicant, used, serial, assigned, reborn, outcome>>

\* ------------------------------------------------------------ the Store
\* _read(): the list in the file; an absent file is seeded with DEFAULTS.
Read(f) == IF f = Absent THEN DEFAULTS ELSE f

\* The persisted collection, as every Store operation sees it.
Collection == Read(file)

IdsOf(d) == {d[i].id : i \in 1..Len(d)}

MaxOf(S) == CHOOSE m \in S : \A x \in S : x <= m

\* Faults of create_applicant's id rule: the id taken from the number of
\* records, and the increment forgotten.
NewIdByCount(d) == BaseId + Len(d) + 1

NewIdNoInc(d) == IF d = <<>> THEN BaseId + 1 ELSE MaxOf(IdsOf(d))

\* new_id = max((a["id"] for a in data), default=1000) + 1
NewId(d) == (IF d = <<>> THEN BaseId ELSE MaxOf(IdsOf(d))) + 1

NewRecord(d, name, unit, date) ==
    Mk(NewId(d), name, unit, date, "Submitted/Manual", "Pending", "N/A", "N/A")

\* Fault of update_applicant: the `is not None` test dropped.
MergeAll(a, status, risk) == [a EXCEPT !.status = status, !.risk = risk]

\* for k, v in updates.items(): if v is not None: a[k] = v
Merge(a, status, risk) ==
    [a EXCEPT !.status = IF status # None THEN status ELSE @,
              !.risk = IF risk # None THEN risk ELSE @]

\* Fault of update_applicant: the loop index used after a loop that matched nothing.
FirstIdxLeak(d, id) ==
    IF id \in IdsOf(d) THEN CHOOSE i \in 1..Len(d) : d[i].id = id /\ \A j \in 1..(i - 1) : d[j].id # id
    ELSE Len(d)

\* index of the first record with this id, 0 when there is none
FirstIdx(d, id) ==
    IF id \in IdsOf(d) THEN CHOOSE i \in 1..Len(d) : d[i].id = id /\ \A j \in 1..(i - 1) : d[j].id # id
    ELSE 0

Found(d, id) == FirstIdx(d, id) # 0

\* Fault of get_applicant: the id comparison dropped, the first record returned.
LookupFirst(d, id) == IF d # <<>> THEN <<d[1]>> ELSE <<>>

\* get_applicant: the matching record (as a one-element list) or nothing
Lookup(d, id) == IF Found(d, id) THEN <<d[FirstIdx(d, id)]>> ELSE <<>>

\* update_applicant: the list written back
Updated(d, id, status, risk) == [d EXCEPT ![FirstIdx(d, id)] = Merge(@, status, risk)]

\* Fault of delete_applicant: the filter inverted.
RemovedInverted(d, id) == SelectSeq(d, LAMBDA a : a.id = id)

\* delete_applicant: new = [a for a in data if a["id"] != app_id]
Removed(d, id) == SelectSeq(d, LAMBDA a : a.id # id)

\* Fault of _mock_decision_engine: the parity rule swapped.
DecisionRiskSwapped(id) == IF id % 2 = 0 THEN "Medium" ELSE "Low"

\* risk = "Low" if applicant["id"] % 2 == 0 else "Medium"
DecisionRisk(id) == IF id % 2 = 0 THEN "Low" ELSE "Medium"

\* ------------------------------------------------------------- requests
NoOp == [kind |-> "none", id |-> 0, name |-> None, unit |-> None, status |-> None, risk |-> None]
Call(k, i) == [NoOp EXCEPT !.kind = k, !.id = i]

\* The ids a client asks about: the newest record's and the one after it
\* (which no record has); a delete may also name the oldest record's.
TargetIds == {NewId(Collection) - 1, NewId(Collection)}
DeleteIds == TargetIds \cup (IF Collection = <<>> THEN {} ELSE {Collection[1].id})

Requests(k) ==
    CASE k = "list" -> {Call("list", 0)}
      [] k = "get" -> {Call("get", i) : i \in TargetIds}
      [] k = "create" -> {[Call("create", 0) EXCEPT !.name = n, !.unit = u] : n \in Names, u \in Units}
      [] k = "patch" -> {[Call("patch", i) EXCEPT !.status = s, !.risk = r] :
                            i \in TargetIds, s \in PatchStatus, r \in PatchRisk}
      [] k = "delete" -> {Call("delete", i) : i \in DeleteIds}
      [] k = "run" -> {Call("run", i) : i \in TargetIds}

Kinds == {"list", "get", "create", "patch", "delete", "run"}

Response(p, o, code, ret) == [kind |-> o.kind, id |-> o.id, code |-> code, ret |-> ret]

\* Fault of the Store: the lock not taken.
CanAcquireAlways(l) == TRUE

\* `with _lock:` may be entered
CanAcquire(l) == l = NoOne

Init ==
    /\ file \in InitFiles
    /\ lock = NoOne
    /\ pc = [p \in Procs |-> "idle"]
    /\ op = [p \in Procs |-> NoOp]
    /\ data = [p \in Procs |-> <<>>]
    /\ last = Response(NoOne, NoOp, 0, <<>>)
    /\ applicant = [t \in Tasks |-> 0]
    /\ used = 0
    /\ serial = Read(file)
    /\ assigned = {}
    /\ reborn = [t \in Tasks |-> FALSE]
    /\ outcome = [t \in Tasks |-> "none"]

\* run-decision requests in progress and tasks already scheduled
Running == {w \in Workers : op[w].kind = "run"} \cup {t \in Tasks : outcome[t] # "none"}

\* A client sends a request; a thread-pool thread starts the route function.
Request(w, o) ==
    /\ pc[w] = "idle"
    /\ used < MaxOps
    /\ o.kind = "run" => Cardinality(Running) < MaxTasks
    /\ used' = used + 1
    /\ op' = [op EXCEPT ![w] = o]
    /\ pc' = [pc EXCEPT ![w] = "lock"]
    /\ UNCHANGED <<file, lock, data, last, applicant, serial, assigned, reborn, outcome>>

\* with _lock: data = _read()
Enter(p) ==
    /\ pc[p] = "lock"
    /\ CanAcquire(lock)
    /\ lock' = p
    /\ data' = [data EXCEPT ![p] = Read(file)]
    /\ file' = Read(file)
    /\ pc' = [pc EXCEPT ![p] = "body"]
    /\ UNCHANGED <<op, last, applicant, used, serial, assigned, reborn, outcome>>

\* Leaving the `with` block and returning from the route: the response goes out.
Leave(w, code, ret) ==
    /\ lock' = NoOne
    /\ pc' = [pc EXCEPT ![w] = "idle"]
    /\ op' = [op EXCEPT ![w] = NoOp]
    /\ data' = [data EXCEPT ![w] = <<>>]
    /\ last' = Response(w, op[w], code, ret)

\* GET /applicants
ListBody(w) ==
    /\ pc[w] = "body" /\ op[w].kind = "list"
    /\ Leave(w, 200, data[w])
    /\ UNCHANGED <<file, applicant, used, serial, assigned, reborn, outcome>>

\* GET /applicants/{app_id}
GetBody(w) ==
    /\ pc[w] = "body" /\ op[w].kind = "get"
    /\ LET r == Lookup(data[w], op[w].id)
       IN Leave(w, IF r = <<>> THEN 404 ELSE 200, r)
    /\ UNCHANGED <<file, applicant, used, serial, assigned, reborn, outcome>>

\* POST /applicants
CreateBody(w) ==
    /\ pc[w] = "body" /\ op[w].kind = "create"
    /\ \E d \in Dates :
         LET new == NewRecord(data[w], op[w].name, op[w].unit, d)
         IN /\ file' = Append(data[w], new)
            /\ serial' = Append(serial, NewRecord(serial, op[w].name, op[w].unit, d))
            /\ assigned' = assigned \cup {new.id}
            /\ reborn' = [t \in Tasks |-> reborn[t] \/ (outcome[t] = "queued" /\ applicant[t] = new.id)]
            /\ Leave(w, 201, <<new>>)
    /\ UNCHANGED <<applicant, used, outcome>>

\* PATCH /applicants/{app_id}
PatchBody(w) ==
    /\ pc[w] = "body" /\ op[w].kind = "patch"
    /\ LET o == op[w]
       IN IF Found(data[w], o.id)
          THEN /\ file' = Updated(data[w], o.id, o.status, o.risk)
               /\ Leave(w, 200, Lookup(file', o.id))
          ELSE /\ file' = file
               /\ Leave(w, 404, <<>>)
    /\ serial' = IF Found(serial, op[w].id)
                 THEN Updated(serial, op[w].id, op[w].status, op[w].risk) ELSE serial
    /\ UNCHANGED <<applicant, used, assigned, reborn, outcome>>

\* DELETE /applicants/{app_id}
DeleteBody(w) ==
    /\ pc[w] = "body" /\ op[w].kind = "delete"
    /\ LET new == Removed(data[w], op[w].id)
       IN IF Len(new) = Len(data[w])
          THEN /\ file' = file
               /\ Leave(w, 404, <<>>)
          ELSE /\ file' = new
               /\ Leave(w, 204, <<>>)
    /\ serial' = Removed(serial, op[w].id)
    /\ UNCHANGED <<applicant, used, assigned, reborn, outcome>>

\* The task slot a newly accepted run-decision gets.
Slot == CHOOSE t \in Tasks : outcome[t] = "none" /\ \A u \in Tasks : outcome[u] = "none" => t <= u

\* POST /applicants/{app_id}/run-decision: get_applicant, then enqueue_decision_agent
RunBody(w) ==
    /\ pc[w] = "body" /\ op[w].kind = "run"
    /\ IF Lookup(data[w], op[w].id) # <<>>
       THEN /\ lock' = NoOne
            /\ pc' = [pc EXCEPT ![w] = "idle", ![Slot] = "lock"]
            /\ op' = [op EXCEPT ![w] = NoOp, ![Slot] = Call("get", op[w].id)]
            /\ data' = [data EXCEPT ![w] = <<>>]
            /\ last' = Response(w, op[w], 200, <<>>)
            /\ applicant' = [applicant EXCEPT ![Slot] = op[w].id]
            /\ outcome' = [outcome EXCEPT ![Slot] = "queued"]
       ELSE /\ Leave(w, 404, <<>>)
            /\ UNCHANGED <<applicant, outcome>>
    /\ UNCHANGED <<file, used, serial, assigned, reborn>>

\* task(): applicant = get_applicant(applicant_id); if not applicant: return
TaskGet(t) ==
    /\ pc[t] = "body" /\ op[t].kind = "get"
    /\ lock' = NoOne
    /\ data' = [data EXCEPT ![t] = <<>>]
    /\ IF Lookup(data[t], op[t].id) # <<>>
       THEN /\ pc' = [pc EXCEPT ![t] = "sleep"]
            /\ op' = op
            /\ outcome' = outcome
       ELSE /\ pc' = [pc EXCEPT ![t] = "idle"]
            /\ op' = [op EXCEPT ![t] = NoOp]
            /\ outcome' = [outcome EXCEPT ![t] = "exited"]
    /\ UNCHANGED <<file, last, applicant, used, serial, assigned, reborn>>

\* res = await _mock_decision_engine(applicant): the delay ends, the result is computed
TaskWake(t) ==
    /\ pc[t] = "sleep"
    /\ pc' = [pc EXCEPT ![t] = "lock"]
    /\ op' = [op EXCEPT ![t] = [Call("update", applicant[t]) EXCEPT
                                   !.status = "Decision Ready", !.risk = DecisionRisk(applicant[t])]]
    /\ UNCHANGED <<file, lock, data, last, applicant, used, serial, assigned, reborn, outcome>>

\* update_applicant(applicant_id, {"status": ..., "risk": ...}) and the end of the task
TaskUpdate(t) ==
    /\ pc[t] = "body" /\ op[t].kind = "update"
    /\ LET o == op[t]
       IN /\ IF Found(data[t], o.id)
             THEN /\ file' = Updated(data[t], o.id, o.status, o.risk)
                  /\ outcome' = [outcome EXCEPT ![t] = "written"]
             ELSE /\ file' = file
                  /\ outcome' = [outcome EXCEPT ![t] = "lost"]
          /\ serial' = IF Found(serial, o.id) THEN Updated(serial, o.id, o.status, o.risk) ELSE serial
    /\ lock' = NoOne
    /\ pc' = [pc EXCEPT ![t] = "idle"]
    /\ op' = [op EXCEPT ![t] = NoOp]
    /\ data' = [data EXCEPT ![t] = <<>>]
    /\ UNCHANGED <<last, applicant, used, assigned, reborn>>

Next ==
    \/ \E w \in Workers, k \in Kinds : \E o \in Requests(k) : Request(w, o)
    \/ \E p \in Procs : Enter(p)
    \/ \E w \in Workers : ListBody(w)
    \/ \E w \in Workers : GetBody(w)
    \/ \E w \in Workers : CreateBody(w)
    \/ \E w \in Workers : PatchBody(w)
    \/ \E w \in Workers : DeleteBody(w)
    \/ \E w \in Workers : RunBody(w)
    \/ \E t \in Tasks : TaskGet(t)
    \/ \E t \in Tasks : TaskWake(t)
    \/ \E t \in Tasks : TaskUpdate(t)

Spec == Init /\ [][Next]_vars

\* The threads run: a thread that can take its next step eventually does.
\* Clients are under no obligation to send requests.
Step(p) ==
    \/ Enter(p)
    \/ p \in Workers /\ (ListBody(p) \/ GetBody(p) \/ CreateBody(p) \/ PatchBody(p)
                            \/ DeleteBody(p) \/ RunBody(p))
    \/ p \in Tasks /\ (TaskGet(p) \/ TaskWake(p) \/ TaskUpdate(p))

FairSpec == Init /\ [][Next]_vars /\ \A p \in Procs : WF_vars(Step(p))

\* ------------------------------------------------------------------ claims
Last(d) == d[Len(d)]

Without(d, i) == SubSeq(d, 1, i - 1) \o SubSeq(d, i + 1, Len(d))

\* C1: create_applicant appends exactly one record to the collection; its id
\* is 1001 when the collection is empty and otherwise one more than the
\* largest id in it; it carries the request's name and unit and the defaults
\* status 'Submitted/Manual', risk 'Pending', income_match 'N/A', error_rate
\* 'N/A'; every record that was there is unchanged; the record is returned.
C1_CreateAppendsNextId ==
    [][\A w \in Workers : CreateBody(w) =>
          LET old == Collection
              new == file'
              rec == Last(new)
          IN /\ Len(new) = Len(old) + 1
             /\ SubSeq(new, 1, Len(old)) = old
             /\ IF old = <<>> THEN rec.id = 1001
                ELSE /\ \E i \in 1..Len(old) : rec.id = old[i].id + 1
                     /\ \A i \in 1..Len(old) : rec.id > old[i].id
             /\ rec.name = op[w].name /\ rec.unit = op[w].unit /\ rec.date \in Dates
             /\ rec.status = "Submitted/Manual" /\ rec.risk = "Pending"
             /\ rec.income_match = "N/A" /\ rec.error_rate = "N/A"
             /\ last'.code = 201 /\ last'.ret = <<rec>>]_vars

C1_Witness ==
    /\ last.kind = "create" /\ last.code = 201
    /\ Len(Collection) = SeedLen + 1
    /\ Last(Collection).id = BaseId + SeedLen + 1

\* C2: in every reachable state no two records of the persisted collection
\* have the same id.
C2_UniqueIds ==
    \A i, j \in 1..Len(Collection) : i # j => Collection[i].id # Collection[j].id

C2_Witness ==
    /\ Len(Collection) = 2
    /\ Cardinality(assigned) = 2
    /\ \E t \in Tasks : outcome[t] = "written"

\* C3: a PATCH of an existing applicant overwrites status and risk only where
\* the supplied value is non-null; a null or omitted field keeps its value;
\* id, name, unit, date, income_match and error_rate of that record and every
\* other record are unchanged.
C3_PatchFrame ==
    [][\A w \in Workers : (PatchBody(w) /\ op[w].id \in IdsOf(Collection)) =>
          LET old == Collection
              new == file'
              o == op[w]
          IN /\ Len(new) = Len(old)
             /\ \A i \in 1..Len(old) :
                  IF old[i].id = o.id
                  THEN /\ new[i].status = (IF o.status = None THEN old[i].status ELSE o.status)
                       /\ new[i].risk = (IF o.risk = None THEN old[i].risk ELSE o.risk)
                       /\ new[i].id = old[i].id /\ new[i].name = old[i].name
                       /\ new[i].unit = old[i].unit /\ new[i].date = old[i].date
                       /\ new[i].income_match = old[i].income_match
                       /\ new[i].error_rate = old[i].error_rate
                       /\ last'.code = 200 /\ last'.ret = <<new[i]>>
                  ELSE new[i] = old[i]]_vars

\* a record patched with a null status and risk 'High'
C3_Witness ==
    /\ last.kind = "patch" /\ last.code = 200
    /\ last.ret[1].status = "Denied" /\ last.ret[1].risk = "High"
    /\ last.ret[1].id = BaseId + SeedLen
    /\ used = 1

\* C4: for an id that matches no record, get, PATCH, DELETE and run-decision
\* answer not-found (404) and leave the persisted collection as it was, and
\* run-decision schedules no Decision Task.
C4_UnknownId ==
    [][\A w \in Workers :
          ((GetBody(w) \/ PatchBody(w) \/ DeleteBody(w) \/ RunBody(w))
               /\ op[w].id \notin IdsOf(Collection)) =>
              /\ last'.code = 404 /\ last'.ret = <<>>
              /\ Collection' = Collection
              /\ \A t \in Tasks : pc'[t] = pc[t] /\ outcome'[t] = outcome[t]]_vars

C4_Witness ==
    /\ last.kind = "run" /\ last.code = 404
    /\ \A t \in Tasks : outcome[t] = "none" /\ pc[t] = "idle"
    /\ Collection = DEFAULTS

\* C5: a DELETE of an id that is present answers success (204); the record
\* with that id is gone, the records with other ids remain, unchanged and in
\* the same order; an id that is not in the collection enters it only by a
\* create.
C5_DeleteRemoves ==
    [][/\ \A w \in Workers : (DeleteBody(w) /\ op[w].id \in IdsOf(Collection)) =>
            /\ last'.code = 204
            /\ op[w].id \notin IdsOf(Collection')
            /\ \E i \in 1..Len(Collection) :
                 Collection[i].id = op[w].id /\ Collection' = Without(Collection, i)
       /\ \A id \in IdsOf(Collection') \ IdsOf(Collection) : \E w \in Workers : CreateBody(w)]_vars

\* the oldest record was deleted, the others are all there
C5_Witness ==
    /\ last.kind = "delete" /\ last.code = 204 /\ last.id = BaseId + 1
    /\ Collection = Without(DEFAULTS, 1)

\* the record under this id carries the decision for it
Decided(id) ==
    \E i \in 1..Len(Collection) :
        /\ Collection[i].id = id
        /\ Collection[i].status = "Decision Ready"
        /\ Collection[i].risk = (IF id % 2 = 0 THEN "Low" ELSE "Medium")

\* C6 (as stated): once run-decision is accepted for an applicant, the record
\* of that id eventually has status 'Decision Ready' and risk 'Low' (even id)
\* or 'Medium' (odd id).
C6_Original ==
    \A t \in Tasks : (outcome[t] = "queued") ~> Decided(applicant[t])

\* C6 (amended): once run-decision is accepted for an applicant, eventually
\* either the record of that id has status 'Decision Ready' and risk 'Low'
\* (even id) or 'Medium' (odd id), or the task has found no record of that id
\* when it started or when its delay ended.
C6_DecisionEventually ==
    \A t \in Tasks :
        (outcome[t] = "queued") ~> (Decided(applicant[t]) \/ outcome[t] \in {"exited", "lost"})

C6_Witness ==
    \E t \in Tasks :
        /\ outcome[t] = "written" /\ applicant[t] % 2 = 0 /\ Decided(applicant[t])
        /\ assigned # {}

\* C7: every Store operation reads and rewrites the file while it holds the
\* lock: a thread inside a `with _lock` block is the holder and what it read
\* is what the file holds, and the collection equals the result of applying
\* the operations one after another.
C7_Serialized ==
    /\ \A p \in Procs : pc[p] = "body" => (lock = p /\ data[p] = file)
    /\ Collection = serial

\* two creates at once: one inside the lock, the other waiting for it
C7_Witness ==
    \E p, q \in Workers :
        /\ pc[p] = "body" /\ op[p].kind = "create"
        /\ pc[q] = "lock" /\ op[q].kind = "create"
        /\ \E t \in Tasks : pc[t] = "lock" /\ op[t].kind = "update"

\* C8: a Decision Task whose applicant id is not in the collection changes
\* nothing: at its start it exits, at its write-back it writes no record.
C8_AbsentTaskNoEffect ==
    [][\A t \in Tasks :
          ((Enter(t) \/ TaskGet(t) \/ TaskUpdate(t)) /\ applicant[t] \notin IdsOf(Collection)) =>
              /\ Collection' = Collection
              /\ TaskGet(t) => (pc'[t] = "idle" /\ outcome'[t] = "exited")]_vars

\* the applicant was deleted during the delay
C8_Witness == \E t \in Tasks : outcome[t] = "lost" /\ pc[t] = "idle"

\* C9: the id a create returns is greater than every id an earlier create
\* returned.
C9_MonotoneIds ==
    [][\A w \in Workers : CreateBody(w) => \A i \in assigned : Last(file').id > i]_vars

\* C10: the write-back of a Decision Task changes no record that was created
\* after its run-decision was accepted.
C10_WriteBackOnlyOriginal ==
    [][\A t \in Tasks : (TaskUpdate(t) /\ reborn[t]) => Collection' = Collection]_vars

====
